---- MODULE Spec2Model ----
(***************************************************************************)
(* Live generation status pipeline of the wanx front end:                  *)
(*   - the push adapter createLogWebSocket (two Server-Sent-Events         *)
(*     variants of api/liveApi.ts),                                        *)
(*   - the hook useLiveVideoGeneration (hooks/useLiveVideoGeneration.ts):  *)
(*     startGeneration, connectToWebSocket, handleLogMessage,              *)
(*     startStatusPolling, getVideo, cleanup.                              *)
(* One action is one run-to-completion step of the browser's event loop:   *)
(* a handler runs from the event that wakes it up to its next await.       *)
(***************************************************************************)
EXTENDS Integers, Sequences, FiniteSets, TLC

(***************************************************************************)
(* Bounds of the exploration.                                              *)
(***************************************************************************)
MaxStarts == 2      \* calls of startGeneration
MaxFrames == 2      \* push frames delivered in total
MaxTicks  == 2      \* firings of the polling interval in total
MaxEvents == 4      \* starts, push frames, transport failures, interval firings, unmount

(***************************************************************************)
(* Strings.  A string of the program is a TLA+ string; Text gives its      *)
(* spelling, on which includes / startsWith / substring / split / match    *)
(* are computed character by character.                                    *)
(***************************************************************************)
Null == "<null>"

Text(s) ==
  CASE s = "Analyzing" -> <<"A","n","a","l","y","z","i","n","g">>
    [] s = "hello" -> <<"h","e","l","l","o">>
    [] s = "ERROR:boom" -> <<"E","R","R","O","R",":","b","o","o","m">>
    [] s = "boom" -> <<"b","o","o","m">>
    [] s = "DONE:ok" -> <<"D","O","N","E",":","o","k">>
    [] s = "{bad" -> <<"{","b","a","d">>
    [] s = "/v/c3_tiktok.mp4" -> <<"/","v","/","c","3","_","t","i","k","t","o","k",".","m","p","4">>
    [] s = "c3_tiktok.mp4" -> <<"c","3","_","t","i","k","t","o","k",".","m","p","4">>
    [] s = "Video generation complete: c3_tiktok.mp4" -> <<"V","i","d","e","o"," ","g","e","n","e","r","a","t","i","o","n"," ","c","o","m","p","l","e","t","e",":"," ","c","3","_","t","i","k","t","o","k",".","m","p","4">>
    [] s = "c3" -> <<"c","3">>
    [] s = "" -> <<>>
    [] s = "Extracting Rendering" -> <<"E","x","t","r","a","c","t","i","n","g"," ","R","e","n","d","e","r","i","n","g">>
    [] s = "Generating Encoding" -> <<"G","e","n","e","r","a","t","i","n","g"," ","E","n","c","o","d","i","n","g">>
    [] s = "Adding complete" -> <<"A","d","d","i","n","g"," ","c","o","m","p","l","e","t","e">>
    [] s = "Upload complete" -> <<"U","p","l","o","a","d"," ","c","o","m","p","l","e","t","e">>

Strings == {"Analyzing", "hello", "ERROR:boom", "boom", "DONE:ok", "{bad",
            "/v/c3_tiktok.mp4", "c3_tiktok.mp4",
            "Video generation complete: c3_tiktok.mp4", "c3", "",
            "Extracting Rendering", "Generating Encoding", "Adding complete",
            "Upload complete"}

\* the string spelled by a character sequence
FromText(cs) == CHOOSE s \in Strings : Text(s) = cs

kAnalyzing == <<"A","n","a","l","y","z","i","n","g">>
kExtracting == <<"E","x","t","r","a","c","t","i","n","g">>
kTransforming == <<"T","r","a","n","s","f","o","r","m","i","n","g">>
kStartingToProcess == <<"S","t","a","r","t","i","n","g"," ","t","o"," ","p","r","o","c","e","s","s">>
kRendering == <<"R","e","n","d","e","r","i","n","g">>
kGenerating == <<"G","e","n","e","r","a","t","i","n","g">>
kCreating == <<"C","r","e","a","t","i","n","g">>
kApplying == <<"A","p","p","l","y","i","n","g">>
kEncoding == <<"E","n","c","o","d","i","n","g">>
kCombining == <<"C","o","m","b","i","n","i","n","g">>
kAdding == <<"A","d","d","i","n","g">>
kcomplete == <<"c","o","m","p","l","e","t","e">>
kComplete == <<"C","o","m","p","l","e","t","e">>
kVideoGenerationComplete == <<"V","i","d","e","o"," ","g","e","n","e","r","a","t","i","o","n"," ","c","o","m","p","l","e","t","e">>
kVideoGenerationCompleteColon == <<"V","i","d","e","o"," ","g","e","n","e","r","a","t","i","o","n"," ","c","o","m","p","l","e","t","e",":"," ">>
kDone == <<"D","O","N","E",":">>
kError == <<"E","R","R","O","R",":">>
kTiktok == <<"_","t","i","k","t","o","k">>

\* String.prototype.startsWith / includes / substring(n), on spellings
PrefixAt(cs, i, kw) ==
  /\ i + Len(kw) - 1 <= Len(cs)
  /\ \A j \in 1..Len(kw) : cs[i + j - 1] = kw[j]

StartsWith(s, kw) == PrefixAt(Text(s), 1, kw)

Includes(s, kw) == \E i \in 1..(Len(Text(s)) + 1) : PrefixAt(Text(s), i, kw)

SubstringFrom(s, n) ==
  FromText(IF n >= Len(Text(s)) THEN <<>> ELSE SubSeq(Text(s), n + 1, Len(Text(s))))

\* path.split('/').pop(): the text after the last '/'
LastSegment(s) ==
  LET cs == Text(s)
      slashes == {i \in 1..Len(cs) : cs[i] = "/"}
      last == IF slashes = {} THEN 0 ELSE CHOOSE i \in slashes : \A j \in slashes : j <= i
  IN FromText(IF last = Len(cs) THEN <<>> ELSE SubSeq(cs, last + 1, Len(cs)))

Concat(kw, s) == FromText(kw \o Text(s))


\* log.match(/Video generation complete: ([a-f0-9-]+)_tiktok/): the first
\* position where the phrase is followed by one or more class characters
\* and then "_tiktok" ("_" is outside the class, so the group is the whole run)
IdClass == {"a","b","c","d","e","f","0","1","2","3","4","5","6","7","8","9","-"}

ClassRun(cs, p) ==
  LET stops == {q \in p..(Len(cs) + 1) : q = Len(cs) + 1 \/ cs[q] \notin IdClass}
  IN (CHOOSE q \in stops : \A r \in stops : q <= r) - p

MatchAt(cs, i) ==
  /\ PrefixAt(cs, i, kVideoGenerationCompleteColon)
  /\ LET p == i + Len(kVideoGenerationCompleteColon)
     IN /\ ClassRun(cs, p) >= 1
        /\ PrefixAt(cs, p + ClassRun(cs, p), kTiktok)

HasJobIdMatch(s) == \E i \in 1..Len(Text(s)) : MatchAt(Text(s), i)

JobIdMatch(s) ==
  LET cs == Text(s)
      i == CHOOSE k \in 1..Len(cs) : MatchAt(cs, k) /\ \A m \in 1..(k - 1) : ~MatchAt(cs, m)
      p == i + Len(kVideoGenerationCompleteColon)
  IN FromText(SubSeq(cs, p, p + ClassRun(cs, p) - 1))

(***************************************************************************)
(* Push frames.  JSON.parse either throws (raw) or yields an object whose  *)
(* fields message, log, status, video_path are strings ("" when absent).   *)
(***************************************************************************)
RawFrame(t) == [raw |-> TRUE, text |-> t, message |-> "", log |-> "", status |-> "", video_path |-> ""]
ObjFrame(m, l, st, vp) == [raw |-> FALSE, text |-> "", message |-> m, log |-> l, status |-> st, video_path |-> vp]

NoFrame == RawFrame(Null)

Frames ==
  { RawFrame("{bad"),
    ObjFrame("Analyzing", "", "", ""),
    ObjFrame("", "DONE:ok", "", ""),
    ObjFrame("", "ERROR:boom", "", ""),
    ObjFrame("", "", "complete", "/v/c3_tiktok.mp4") }

\* further frames: lines of two keyword families, a completion-family line,
\* a completion payload that carries a message, and an object with no field
PushFrames ==
  Frames \cup
  { ObjFrame("Extracting Rendering", "", "", ""),
    ObjFrame("Generating Encoding", "", "", ""),
    ObjFrame("Adding complete", "", "", ""),
    ObjFrame("Upload complete", "", "", ""),
    ObjFrame("hello", "", "complete", ""),
    ObjFrame("", "", "", "") }

\* callbacks the adapter makes for one frame, in call order
CbMessage(l) == [cb |-> "message", arg |-> l]
CbError(d)   == [cb |-> "error", arg |-> d]
CbComplete   == [cb |-> "complete", arg |-> ""]
CbClose      == [cb |-> "close", arg |-> ""]

\* api/liveApi.ts, eventSource.onmessage
OnMessageLocal(f) ==
  IF f.raw THEN <<CbMessage(f.text)>>
  ELSE IF f.message # "" THEN
    <<CbMessage(f.message)>>
      \o (IF f.status = "complete" THEN <<CbComplete, CbClose>> ELSE <<>>)
  ELSE IF f.log # "" THEN
    <<CbMessage(f.log)>>
      \o (IF StartsWith(f.log, kDone) THEN <<CbComplete, CbClose>>
          ELSE IF StartsWith(f.log, kError) THEN <<CbError(SubstringFrom(f.log, 6))>>
          ELSE <<>>)
  ELSE <<>>

\* the deployed variant of api/liveApi.ts, eventSource.onmessage
OnMessageDeployed(f) ==
  IF f.raw THEN <<CbMessage(f.text)>>
  ELSE IF f.message # "" THEN <<CbMessage(f.message)>>
  ELSE IF f.log # "" THEN
    <<CbMessage(f.log)>>
      \o (IF StartsWith(f.log, kDone) \/ Includes(f.log, kVideoGenerationComplete) THEN <<>>
          ELSE IF StartsWith(f.log, kError) THEN <<CbError(SubstringFrom(f.log, 6))>>
          ELSE <<>>)
  ELSE IF f.status = "complete" /\ f.video_path # "" THEN
    <<CbMessage(Concat(kVideoGenerationCompleteColon, LastSegment(f.video_path))),
      CbComplete, CbClose>>
  ELSE <<>>

\* the WebSocket variant of api/liveApi.ts, socket.onmessage
OnMessageWebSocket(f) ==
  IF f.raw THEN <<CbMessage(f.text)>>
  ELSE IF f.log # "" THEN
    (IF StartsWith(f.log, kDone) THEN <<CbComplete>>
     ELSE IF StartsWith(f.log, kError) THEN <<CbError(SubstringFrom(f.log, 6))>>
     ELSE <<CbMessage(f.log)>>)
  ELSE <<>>

Variants == {"local", "deployed"}
AllVariants == {"local", "deployed", "websocket"}

OnMessage(v, f) ==
  IF v = "local" THEN OnMessageLocal(f)
  ELSE IF v = "deployed" THEN OnMessageDeployed(f)
  ELSE OnMessageWebSocket(f)

\* eventSource.onerror: onError(error); eventSource.close()
OnErrorEvent == <<CbError("transport"), CbClose>>

\* socket.onerror: onError(error); the browser closes a failed WebSocket
OnErrorEventWebSocket == <<CbError("transport"), CbClose>>

OnError(v) == IF v = "websocket" THEN OnErrorEventWebSocket ELSE OnErrorEvent


(***************************************************************************)
(* Responses of GET /job_status/{job_id}.                                  *)
(***************************************************************************)
StatusResponse(st, hp, pr, msg, hl, lg) ==
  [status |-> st, hasProgress |-> hp, progress |-> pr, message |-> msg,
   hasLogs |-> hl, logs |-> lg]

NoResponse == StatusResponse(Null, FALSE, 0, "", FALSE, <<>>)

StatusResponses ==
  { StatusResponse("processing", TRUE, 50, "hello", TRUE, <<"Analyzing", "hello">>),
    StatusResponse("processing", FALSE, 0, "", TRUE, <<"{bad">>),
    StatusResponse("complete", TRUE, 100, "", FALSE, <<>>),
    StatusResponse("error", FALSE, 0, "boom", FALSE, <<>>) }

\* further answers: a progress value on each side of every threshold and
\* outside the percentage range (the field is any number the server sends),
\* a progress value without a message, and a completion with a message
PollResponses ==
  StatusResponses \cup
  { StatusResponse("processing", TRUE, p, "hello", FALSE, <<>>) :
      p \in {-5, 0, 29, 30, 59, 60, 99, 100, 150} }
  \cup
  { StatusResponse("processing", TRUE, 60, "", FALSE, <<>>),
    StatusResponse("complete", TRUE, 100, "hello", FALSE, <<>>) }

\* job ids: the server's answer to the k-th start, and mock-${Date.now()}
ServerJobId(k) == IF k = 1 THEN "a1" ELSE IF k = 2 THEN "a2" ELSE "a3"
MockJobId(k)   == IF k = 1 THEN "mock-1" ELSE IF k = 2 THEN "mock-2" ELSE "mock-3"

MockVideoUrl == "https://github.com/erniesg/wanx/raw/refs/heads/main/backend/assets/demo/output.mp4"
BlobUrl(id)  == "blob:" \o id
VideoResults == {"blob", "url"}
ServerVideoUrl == "https://server/video.mp4"

(***************************************************************************)
(* State.                                                                  *)
(***************************************************************************)
VARIABLES
  variant,          \* which createLogWebSocket the build links
  isLiveMode,       \* useAppStore: live mode (true) or demo mode
  mounted,          \* the component using the hook is mounted
  jobId, logs, error, isGenerating, videoUrl, isWebSocketConnected,  \* useState
  processingStatus, currentPage, storeVideoUrl,                      \* useAppStore
  webSocketRef, statusPollingRef,                                    \* useRef
  sources,          \* EventSource objects created, in creation order
  intervals,        \* setInterval timers created, in creation order
  starts,           \* calls of startGeneration and where each one is
  ticks,            \* runs of the interval callback and where each one is
  videos,           \* calls of getVideo and where each one is
  tornDown          \* history: job ids whose transport or poller a cleanup() has torn down

progVars == <<jobId, logs, error, isGenerating, videoUrl, isWebSocketConnected,
              processingStatus, currentPage, storeVideoUrl,
              webSocketRef, statusPollingRef, sources, intervals, starts, ticks, videos,
          tornDown>>

vars == <<variant, isLiveMode, mounted, jobId, logs, error, isGenerating, videoUrl, isWebSocketConnected,
          processingStatus, currentPage, storeVideoUrl,
          webSocketRef, statusPollingRef, sources, intervals, starts, ticks, videos,
          tornDown>>

\* the program state as one record, on which the handlers are functions
Cur ==
  [isLiveMode |-> isLiveMode, jobId |-> jobId, logs |-> logs, error |-> error, isGenerating |-> isGenerating,
   videoUrl |-> videoUrl, isWebSocketConnected |-> isWebSocketConnected,
   processingStatus |-> processingStatus, currentPage |-> currentPage,
   storeVideoUrl |-> storeVideoUrl,
   webSocketRef |-> webSocketRef, statusPollingRef |-> statusPollingRef,
   sources |-> sources, intervals |-> intervals, starts |-> starts,
   ticks |-> ticks, videos |-> videos]

\* a set-state call of an unmounted component is dropped by React; the store
\* and the refs are plain objects and keep changing
Apply(S) ==
  /\ jobId' = IF mounted THEN S.jobId ELSE jobId
  /\ logs' = IF mounted THEN S.logs ELSE logs
  /\ error' = IF mounted THEN S.error ELSE error
  /\ isGenerating' = IF mounted THEN S.isGenerating ELSE isGenerating
  /\ videoUrl' = IF mounted THEN S.videoUrl ELSE videoUrl
  /\ isWebSocketConnected' = IF mounted THEN S.isWebSocketConnected ELSE isWebSocketConnected
  /\ processingStatus' = S.processingStatus
  /\ currentPage' = S.currentPage
  /\ storeVideoUrl' = S.storeVideoUrl
  /\ webSocketRef' = S.webSocketRef
  /\ statusPollingRef' = S.statusPollingRef
  /\ sources' = S.sources
  /\ intervals' = S.intervals
  /\ starts' = S.starts
  /\ ticks' = S.ticks
  /\ videos' = S.videos

(***************************************************************************)
(* The hook's functions.                                                   *)
(***************************************************************************)
updateStatus(S, progress, message, step) ==
  [S EXCEPT !.processingStatus = [step |-> step, progress |-> progress, message |-> message]]

cleanup(S) ==
  LET S1 == IF S.webSocketRef # 0
            THEN [S EXCEPT !.sources[S.webSocketRef].open = FALSE, !.webSocketRef = 0]
            ELSE S
  IN IF S1.statusPollingRef # 0
     THEN [S1 EXCEPT !.intervals[S1.statusPollingRef].active = FALSE, !.statusPollingRef = 0]
     ELSE S1

\* a variant of appendLog that skips a line the list already holds
appendLogOnce(S, log) ==
  IF \E i \in 1..Len(S.logs) : S.logs[i] = log THEN S
  ELSE [S EXCEPT !.logs = Append(@, log)]

\* setLogs(prev => [...prev, log])
appendLog(S, log) == [S EXCEPT !.logs = Append(@, log)]

\* a variant of handleLogMessage that tests the generating family first
handleLogMessageReordered(S, log) ==
  LET S1 == appendLog(S, log)
  IN IF Includes(log, kRendering) \/ Includes(log, kGenerating) \/ Includes(log, kCreating)
     THEN updateStatus(S1, 60, log, "generating")
     ELSE IF Includes(log, kAnalyzing) \/ Includes(log, kExtracting)
        \/ Includes(log, kTransforming) \/ Includes(log, kStartingToProcess)
     THEN updateStatus(S1, 30, log, "analyzing")
     ELSE IF Includes(log, kApplying) \/ Includes(log, kEncoding)
        \/ Includes(log, kCombining) \/ Includes(log, kAdding)
     THEN updateStatus(S1, 80, log, "rendering")
     ELSE IF Includes(log, kcomplete) \/ Includes(log, kComplete)
        \/ Includes(log, kVideoGenerationComplete)
     THEN LET S2 == updateStatus(S1, 95, "Video generation complete, retrieving video...", "rendering")
          IN IF HasJobIdMatch(log) THEN [S2 EXCEPT !.jobId = JobIdMatch(log)] ELSE S2
     ELSE S1

\* a variant of handleLogMessage that shows an unmatched line as the status message
handleLogMessageEcho(S, log) ==
  LET S1 == appendLog(S, log)
  IN IF Includes(log, kAnalyzing) \/ Includes(log, kExtracting)
        \/ Includes(log, kTransforming) \/ Includes(log, kStartingToProcess)
     THEN updateStatus(S1, 30, log, "analyzing")
     ELSE IF Includes(log, kRendering) \/ Includes(log, kGenerating) \/ Includes(log, kCreating)
     THEN updateStatus(S1, 60, log, "generating")
     ELSE IF Includes(log, kApplying) \/ Includes(log, kEncoding)
        \/ Includes(log, kCombining) \/ Includes(log, kAdding)
     THEN updateStatus(S1, 80, log, "rendering")
     ELSE IF Includes(log, kcomplete) \/ Includes(log, kComplete)
        \/ Includes(log, kVideoGenerationComplete)
     THEN LET S2 == updateStatus(S1, 95, "Video generation complete, retrieving video...", "rendering")
          IN IF HasJobIdMatch(log) THEN [S2 EXCEPT !.jobId = JobIdMatch(log)] ELSE S2
     ELSE updateStatus(S1, S1.processingStatus.progress, log, S1.processingStatus.step)

handleLogMessage(S, log) ==
  LET S1 == appendLog(S, log)
  IN IF Includes(log, kAnalyzing) \/ Includes(log, kExtracting)
        \/ Includes(log, kTransforming) \/ Includes(log, kStartingToProcess)
     THEN updateStatus(S1, 30, log, "analyzing")
     ELSE IF Includes(log, kRendering) \/ Includes(log, kGenerating) \/ Includes(log, kCreating)
     THEN updateStatus(S1, 60, log, "generating")
     ELSE IF Includes(log, kApplying) \/ Includes(log, kEncoding)
        \/ Includes(log, kCombining) \/ Includes(log, kAdding)
     THEN updateStatus(S1, 80, log, "rendering")
     ELSE IF Includes(log, kcomplete) \/ Includes(log, kComplete)
        \/ Includes(log, kVideoGenerationComplete)
     THEN LET S2 == updateStatus(S1, 95, "Video generation complete, retrieving video...", "rendering")
          IN IF HasJobIdMatch(log) THEN [S2 EXCEPT !.jobId = JobIdMatch(log)] ELSE S2
     ELSE S1

\* getVideo up to its first await: the status update, then the request
getVideo(S, id) ==
  LET S1 == updateStatus(S, 95, "Retrieving generated video...", "rendering")
  IN [S1 EXCEPT !.videos = Append(@, [job |-> id, pc |-> "awaitVideo", videoData |-> Null])]

\* a variant of rejectVideo without the inner catch: the outer catch records
\* the error before the demo video is awaited
rejectVideoFatal(S, v) ==
  LET S1 == [S EXCEPT !.error = "Failed to retrieve video", !.videos[v].pc = "awaitMockVideo"]
  IN updateStatus(S1, 0, "Error retrieving video", "complete")

\* getVideo when liveApiClient.getVideo rejects: the inner catch awaits the mock video
rejectVideo(S, v) == [S EXCEPT !.videos[v].pc = "awaitMockVideo"]

\* a variant of publishVideo that issues the release without publishing the URL
publishVideoLate(S, v, url) ==
  LET S2 == updateStatus(S, 100, "Video generation complete!", "complete")
      S3 == [S2 EXCEPT !.currentPage = "completion"]
  IN [S3 EXCEPT !.videos[v].pc = "awaitCleanup"]

\* getVideo after the artifact is known: publish, complete, release
publishVideo(S, v, url) ==
  LET S1 == [S EXCEPT !.videoUrl = url, !.storeVideoUrl = url]
      S2 == updateStatus(S1, 100, "Video generation complete!", "complete")
      S3 == [S2 EXCEPT !.currentPage = "completion"]
  IN [S3 EXCEPT !.videos[v].pc = "awaitCleanup", !.videos[v].videoData = url]

\* outcomes of DELETE /cleanup/{job_id}: a response (fetch resolves whatever
\* the status code) or a network failure (fetch rejects; the error text may
\* or may not contain '404')
ReleaseOutcomes == {"ok", "http404", "http500", "network", "network404"}

fetchRejects(o) == o \in {"network", "network404"}

\* liveApiClient.cleanup: "resolved" or "rejected"
clientCleanupLocal(o) ==
  IF fetchRejects(o) THEN "resolved"      \* catch: logged, not thrown
  ELSE "resolved"

clientCleanupDeployed(o) ==
  LET inner == IF fetchRejects(o)
               THEN (IF o = "network404" THEN "resolved" ELSE "rejected")  \* .catch(err => ...)
               ELSE "resolved"
  IN IF inner = "rejected" THEN "resolved"  \* outer catch: logged, not thrown
     ELSE "resolved"

clientCleanup(vr, o) == IF vr = "local" THEN clientCleanupLocal(o) ELSE clientCleanupDeployed(o)

\* a variant of releaseSettled that inspects the outcome itself and reports
\* anything but success as an error of the job
releaseSettledStrict(S, v, vr, o) ==
  IF o = "ok" THEN [S EXCEPT !.videos[v].pc = "done"]
  ELSE updateStatus([S EXCEPT !.videos[v].pc = "done", !.error = "Failed to clean up job"],
                    0, "Error cleaning up job", "complete")

\* getVideo after the await of liveApiClient.cleanup(id): a rejection is
\* caught and logged, then videoData is returned
releaseSettled(S, v, vr, o) ==
  IF clientCleanup(vr, o) = "rejected" THEN [S EXCEPT !.videos[v].pc = "done"]
  ELSE [S EXCEPT !.videos[v].pc = "done"]

startStatusPolling(S, id, closureLogs) ==
  LET S1 == IF S.statusPollingRef # 0
            THEN [S EXCEPT !.intervals[S.statusPollingRef].active = FALSE]
            ELSE S
  IN [S1 EXCEPT !.intervals = Append(@, [job |-> id, active |-> TRUE, closureLogs |-> closureLogs]),
                !.statusPollingRef = Len(S1.intervals) + 1]

\* the onError and onComplete callbacks connectToWebSocket hands to the adapter
onError(S, id, closureLogs) ==
  startStatusPolling(
    [S EXCEPT !.error = "Stream connection error. Falling back to polling.",
              !.isWebSocketConnected = FALSE],
    id, closureLogs)

\* a variant of onComplete that retrieves the video of the stored job id
onCompleteStoredId(S, id) ==
  getVideo(updateStatus(S, 90, "Generation complete, retrieving video...", "rendering"), S.jobId)

onComplete(S, id) ==
  getVideo(updateStatus(S, 90, "Generation complete, retrieving video...", "rendering"), id)

\* createLogWebSocket, then the assignment of the handle and the connected flag
connectToWebSocket(S, id, closureLogs, createThrows) ==
  LET S1 == IF createThrows THEN onError(S, id, closureLogs) ELSE S
  IN [S1 EXCEPT !.sources = Append(@, [job |-> id, open |-> ~createThrows, closureLogs |-> closureLogs,
                                     nRecv |-> 0, failed |-> createThrows, last |-> NoFrame]),
                !.webSocketRef = Len(S1.sources) + 1,
                !.isWebSocketConnected = TRUE]

\* a variant of startGeneration that keeps the previous job's transport and poller
startGenerationNoCleanup(S) ==
  LET S1 == [S EXCEPT !.isGenerating = TRUE, !.logs = <<>>, !.error = Null,
                      !.videoUrl = Null, !.storeVideoUrl = Null]
      S2 == updateStatus(S1, 10, "Connecting to generation service...", "analyzing")
  IN [S2 EXCEPT !.starts = Append(@, [pc |-> "awaitStart", job |-> Null, rejected |-> FALSE,
                                    closureLogs |-> S.logs])]

\* a variant of startGeneration without the live-mode guard
startGenerationUnguarded(S) ==
  LET S1 == [S EXCEPT !.isGenerating = TRUE, !.logs = <<>>, !.error = Null,
                      !.videoUrl = Null, !.storeVideoUrl = Null]
      S2 == updateStatus(cleanup(S1), 10, "Connecting to generation service...", "analyzing")
  IN [S2 EXCEPT !.starts = Append(@, [pc |-> "awaitStart", job |-> Null, rejected |-> FALSE,
                                    closureLogs |-> S.logs])]

\* startGeneration up to the await of liveApiClient.startGeneration; in demo
\* mode the call returns at once (the entry of starts records that return)
startGeneration(S) ==
  IF ~S.isLiveMode
  THEN [S EXCEPT !.starts = Append(@, [pc |-> "done", job |-> Null, rejected |-> FALSE,
                                     closureLogs |-> S.logs])]
  ELSE
  LET S1 == [S EXCEPT !.isGenerating = TRUE, !.logs = <<>>, !.error = Null,
                      !.videoUrl = Null, !.storeVideoUrl = Null]
      S2 == updateStatus(cleanup(S1), 10, "Connecting to generation service...", "analyzing")
  IN [S2 EXCEPT !.starts = Append(@, [pc |-> "awaitStart", job |-> Null, rejected |-> FALSE,
                                    closureLogs |-> S.logs])]

\* a variant of startResponse that treats a mock answer as a failed start
startResponseStrict(S, k, job_id, createThrows) ==
  IF S.starts[k].rejected
  THEN updateStatus([S EXCEPT !.starts[k].pc = "done", !.isGenerating = FALSE,
                              !.error = "Failed to start video generation"],
                    0, "Error starting generation", "analyzing")
  ELSE LET S1 == [S EXCEPT !.jobId = job_id, !.starts[k].pc = "done", !.starts[k].job = job_id]
           S2 == updateStatus(S1, 20, "Generation started, connecting to log stream...", "analyzing")
       IN [S2 EXCEPT !.sources = Append(@, [job |-> job_id, open |-> TRUE,
                                              closureLogs |-> S.starts[k].closureLogs,
                                              nRecv |-> 0, failed |-> FALSE, last |-> NoFrame]),
                     !.webSocketRef = Len(S2.sources) + 1,
                     !.isWebSocketConnected = TRUE]

\* startGeneration after the start response
startResponse(S, k, job_id, createThrows) ==
  LET S1 == [S EXCEPT !.jobId = job_id, !.starts[k].pc = "done", !.starts[k].job = job_id]
      S2 == updateStatus(S1, 20, "Generation started, connecting to log stream...", "analyzing")
  IN connectToWebSocket(S2, job_id, S.starts[k].closureLogs, createThrows)

\* a variant of PhaseOf whose comparisons include the threshold
PhaseOfInclusive(progress) ==
  IF progress <= 30 THEN "analyzing"
  ELSE IF progress <= 60 THEN "generating"
  ELSE IF progress <= 100 THEN "rendering"
  ELSE "complete"

PhaseOf(progress) ==
  IF progress < 30 THEN "analyzing"
  ELSE IF progress < 60 THEN "generating"
  ELSE IF progress < 100 THEN "rendering"
  ELSE "complete"

SelectNotIn(seq, old) ==
  SelectSeq(seq, LAMBDA l : \A i \in 1..Len(old) : old[i] # l)

\* the interval callback after checkJobStatus has answered
pollResponse(S, t, r) ==
  LET iv == S.ticks[t].iv
      id == S.intervals[iv].job
      S0 == [S EXCEPT !.ticks[t].pc = "done", !.ticks[t].status = r]
      S1 == IF r.hasProgress /\ r.message # ""
            THEN updateStatus(S0, r.progress, r.message, PhaseOf(r.progress))
            ELSE S0
      newLogs == IF r.hasLogs THEN SelectNotIn(r.logs, S.intervals[iv].closureLogs) ELSE <<>>
      S2 == IF Len(newLogs) > 0 THEN [S1 EXCEPT !.logs = @ \o newLogs] ELSE S1
      S3 == IF S2.statusPollingRef # 0
            THEN [S2 EXCEPT !.intervals[S2.statusPollingRef].active = FALSE, !.statusPollingRef = 0]
            ELSE S2
  IN IF r.status = "complete" THEN getVideo(S3, id)
     ELSE IF r.status = "error"
     THEN [S3 EXCEPT !.error = IF r.message # "" THEN r.message
                               ELSE "An error occurred during video generation"]
     ELSE S2

\* a variant of pollFailed that treats the failed request as terminal
pollFailedStops(S, t) ==
  LET S1 == [S EXCEPT !.ticks[t].pc = "failed", !.error = "Failed to check job status"]
  IN IF S1.statusPollingRef # 0
     THEN [S1 EXCEPT !.intervals[S1.statusPollingRef].active = FALSE, !.statusPollingRef = 0]
     ELSE S1

\* the interval callback when checkJobStatus rejects: the catch logs the error
pollFailed(S, t) == [S EXCEPT !.ticks[t].pc = "failed"]

\* the hook applying the adapter's callbacks for source s, in call order
RECURSIVE Dispatch(_, _, _)
Dispatch(S, s, cbs) ==
  IF cbs = <<>> THEN S
  ELSE LET c == Head(cbs)
           S1 == CASE c.cb = "message"  -> handleLogMessage(S, c.arg)
                   [] c.cb = "error"    -> onError(S, S.sources[s].job, S.sources[s].closureLogs)
                   [] c.cb = "complete" -> onComplete(S, S.sources[s].job)
                   [] c.cb = "close"    -> [S EXCEPT !.sources[s].open = FALSE]
       IN Dispatch(S1, s, Tail(cbs))

MessagesOf(cbs) ==
  LET sel == SelectSeq(cbs, LAMBDA c : c.cb = "message")
  IN [i \in 1..Len(sel) |-> sel[i].arg]

HasCb(cbs, kind) == \E i \in 1..Len(cbs) : cbs[i].cb = kind


(***************************************************************************)
(* Initial state: the hook has just been mounted on the processing page    *)
(* in live mode; nothing has been started.                                 *)
(***************************************************************************)
Init ==
  /\ variant \in Variants
  /\ isLiveMode = TRUE
  /\ mounted = TRUE
  /\ jobId = Null
  /\ logs = <<>>
  /\ error = Null
  /\ isGenerating = FALSE
  /\ videoUrl = Null
  /\ isWebSocketConnected = FALSE
  /\ processingStatus = [step |-> "generating", progress |-> 0, message |-> "Generating video scenes..."]
  /\ currentPage = "processing"
  /\ storeVideoUrl = MockVideoUrl
  /\ webSocketRef = 0
  /\ statusPollingRef = 0
  /\ sources = <<>>
  /\ intervals = <<>>
  /\ starts = <<>>
  /\ ticks = <<>>
  /\ videos = <<>>
  /\ tornDown = {}

(***************************************************************************)
(* Counters of the events the environment has produced so far.             *)
(***************************************************************************)
RECURSIVE SumRecv(_)
SumRecv(seq) == IF seq = <<>> THEN 0 ELSE Head(seq).nRecv + SumRecv(Tail(seq))

RECURSIVE SumFailed(_)
SumFailed(seq) ==
  IF seq = <<>> THEN 0 ELSE (IF Head(seq).failed THEN 1 ELSE 0) + SumFailed(Tail(seq))

nFrames == SumRecv(sources)
nFailed == SumFailed(sources)
nEvents == Len(starts) + nFrames + nFailed + Len(ticks) + (IF mounted THEN 0 ELSE 1)

\* the jobs whose transport or poller the refs hold, which cleanup() tears down
RefJobs ==
  (IF webSocketRef # 0 THEN {sources[webSocketRef].job} ELSE {})
    \cup (IF statusPollingRef # 0 THEN {intervals[statusPollingRef].job} ELSE {})

(***************************************************************************)
(* Actions.                                                                *)
(***************************************************************************)
\* generateVideo of useVideoGeneration calls startGeneration
StartGenerationCall ==
  /\ mounted
  /\ Len(starts) < MaxStarts /\ nEvents < MaxEvents
  /\ Apply(startGeneration(Cur))
  /\ tornDown' = tornDown \cup RefJobs
  /\ UNCHANGED <<variant, isLiveMode, mounted>>

\* the auto-start effect's timer calls startGeneration
AutoStart ==
  /\ mounted
  /\ isLiveMode /\ currentPage = "processing" /\ jobId = Null /\ ~isGenerating
  /\ Len(starts) < MaxStarts /\ nEvents < MaxEvents
  /\ Apply(startGeneration(Cur))
  /\ tornDown' = tornDown \cup RefJobs
  /\ UNCHANGED <<variant, isLiveMode, mounted>>

\* liveApiClient.startGeneration resolves with the server's job id
StartResolve(k) ==
  /\ starts[k].pc = "awaitStart"
  /\ \E createThrows \in BOOLEAN :
       /\ createThrows => nEvents < MaxEvents
       /\ Apply(startResponse(Cur, k, ServerJobId(k), createThrows))
  /\ UNCHANGED <<variant, isLiveMode, mounted, tornDown>>

\* liveApiClient.startGeneration rejects: the mock start is awaited instead
StartReject(k) ==
  /\ starts[k].pc = "awaitStart"
  /\ Apply([Cur EXCEPT !.starts[k].pc = "awaitMockStart", !.starts[k].rejected = TRUE])
  /\ UNCHANGED <<variant, isLiveMode, mounted, tornDown>>

\* liveApiClient.mock.startGeneration resolves after its delay
MockStartResolve(k) ==
  /\ starts[k].pc = "awaitMockStart"
  /\ \E createThrows \in BOOLEAN :
       /\ createThrows => nEvents < MaxEvents
       /\ Apply(startResponse(Cur, k, MockJobId(k), createThrows))
  /\ UNCHANGED <<variant, isLiveMode, mounted, tornDown>>

\* the EventSource s delivers frame f to onmessage
PushFrame(s, f) ==
  /\ sources[s].open
  /\ nFrames < MaxFrames /\ nEvents < MaxEvents
  /\ Apply(Dispatch([Cur EXCEPT !.sources[s].nRecv = @ + 1, !.sources[s].last = f],
                    s, OnMessage(variant, f)))
  /\ UNCHANGED <<variant, isLiveMode, mounted, tornDown>>

\* the EventSource s fails: onerror
TransportError(s) ==
  /\ sources[s].open
  /\ nEvents < MaxEvents
  /\ Apply(Dispatch([Cur EXCEPT !.sources[s].failed = TRUE], s, OnError(variant)))
  /\ UNCHANGED <<variant, isLiveMode, mounted, tornDown>>

\* the interval i fires: the callback calls checkJobStatus and awaits it
IntervalFire(i) ==
  /\ intervals[i].active
  /\ Len(ticks) < MaxTicks /\ nEvents < MaxEvents
  /\ Apply([Cur EXCEPT !.ticks = Append(@, [iv |-> i, pc |-> "awaitStatus", status |-> NoResponse])])
  /\ UNCHANGED <<variant, isLiveMode, mounted, tornDown>>

\* checkJobStatus of tick t resolves with r
PollResolve(t, r) ==
  /\ ticks[t].pc = "awaitStatus"
  /\ Apply(pollResponse(Cur, t, r))
  /\ UNCHANGED <<variant, isLiveMode, mounted, tornDown>>

\* checkJobStatus of tick t rejects: caught and logged
PollReject(t) ==
  /\ ticks[t].pc = "awaitStatus"
  /\ Apply(pollFailed(Cur, t))
  /\ UNCHANGED <<variant, isLiveMode, mounted, tornDown>>

\* liveApiClient.getVideo resolves with a Blob or a URL string
VideoResolve(v, kind) ==
  /\ videos[v].pc = "awaitVideo"
  /\ Apply(publishVideo(Cur, v, IF kind = "blob" THEN BlobUrl(videos[v].job) ELSE ServerVideoUrl))
  /\ UNCHANGED <<variant, isLiveMode, mounted, tornDown>>

\* liveApiClient.getVideo rejects: the mock video is awaited instead
VideoReject(v) ==
  /\ videos[v].pc = "awaitVideo"
  /\ Apply(rejectVideo(Cur, v))
  /\ UNCHANGED <<variant, isLiveMode, mounted, tornDown>>

\* liveApiClient.mock.getVideo resolves after its delay
MockVideoResolve(v) ==
  /\ videos[v].pc = "awaitMockVideo"
  /\ Apply(publishVideo(Cur, v, MockVideoUrl))
  /\ UNCHANGED <<variant, isLiveMode, mounted, tornDown>>

\* the request of liveApiClient.cleanup(id) settles with outcome o
CleanupDone(v) ==
  /\ videos[v].pc = "awaitCleanup"
  /\ \E o \in ReleaseOutcomes : Apply(releaseSettled(Cur, v, variant, o))
  /\ UNCHANGED <<variant, isLiveMode, mounted, tornDown>>

\* the component unmounts: the effect's teardown runs cleanup
Unmount ==
  /\ mounted
  /\ nEvents < MaxEvents
  /\ Apply(cleanup(Cur))
  /\ mounted' = FALSE
  /\ tornDown' = tornDown \cup RefJobs
  /\ UNCHANGED <<variant, isLiveMode>>

Next ==
  \/ StartGenerationCall
  \/ AutoStart
  \/ \E k \in 1..Len(starts) : StartResolve(k)
  \/ \E k \in 1..Len(starts) : StartReject(k)
  \/ \E k \in 1..Len(starts) : MockStartResolve(k)
  \/ \E s \in 1..Len(sources) : \E f \in Frames : PushFrame(s, f)
  \/ \E s \in 1..Len(sources) : TransportError(s)
  \/ \E i \in 1..Len(intervals) : IntervalFire(i)
  \/ \E t \in 1..Len(ticks) : \E r \in StatusResponses : PollResolve(t, r)
  \/ \E t \in 1..Len(ticks) : PollReject(t)
  \/ \E v \in 1..Len(videos) : \E kind \in VideoResults : VideoResolve(v, kind)
  \/ \E v \in 1..Len(videos) : VideoReject(v)
  \/ \E v \in 1..Len(videos) : MockVideoResolve(v)
  \/ \E v \in 1..Len(videos) : CleanupDone(v)
  \/ Unmount

Spec == Init /\ [][Next]_vars

(***************************************************************************)
(* One job in depth: the state right after startGeneration got the        *)
(* server's job id and opened the push channel, with any of the three      *)
(* createLogWebSocket variants linked and the larger frame set.            *)
(***************************************************************************)
Fresh ==
  [isLiveMode |-> TRUE, jobId |-> Null, logs |-> <<>>, error |-> Null, isGenerating |-> FALSE,
   videoUrl |-> Null, isWebSocketConnected |-> FALSE,
   processingStatus |-> [step |-> "generating", progress |-> 0,
                         message |-> "Generating video scenes..."],
   currentPage |-> "processing", storeVideoUrl |-> MockVideoUrl,
   webSocketRef |-> 0, statusPollingRef |-> 0,
   sources |-> <<>>, intervals |-> <<>>, starts |-> <<>>,
   ticks |-> <<>>, videos |-> <<>>]

\* startGeneration ran and its start request resolved
Started(createThrows) ==
  startResponse(startGeneration(Fresh), 1, ServerJobId(1), createThrows)

InitFrom(S) ==
  /\ isLiveMode = S.isLiveMode
  /\ mounted = TRUE
  /\ jobId = S.jobId
  /\ logs = S.logs
  /\ error = S.error
  /\ isGenerating = S.isGenerating
  /\ videoUrl = S.videoUrl
  /\ isWebSocketConnected = S.isWebSocketConnected
  /\ processingStatus = S.processingStatus
  /\ currentPage = S.currentPage
  /\ storeVideoUrl = S.storeVideoUrl
  /\ webSocketRef = S.webSocketRef
  /\ statusPollingRef = S.statusPollingRef
  /\ sources = S.sources
  /\ intervals = S.intervals
  /\ starts = S.starts
  /\ ticks = S.ticks
  /\ videos = S.videos
  /\ tornDown = {}

InitStarted ==
  /\ variant \in AllVariants
  /\ InitFrom(Started(FALSE))

NextPush ==
  \/ \E s \in 1..Len(sources) : \E f \in PushFrames : PushFrame(s, f)
  \/ \E s \in 1..Len(sources) : TransportError(s)
  \/ \E i \in 1..Len(intervals) : IntervalFire(i)
  \/ \E t \in 1..Len(ticks) : \E r \in StatusResponses : PollResolve(t, r)
  \/ \E t \in 1..Len(ticks) : PollReject(t)
  \/ \E v \in 1..Len(videos) : \E kind \in VideoResults : VideoResolve(v, kind)
  \/ \E v \in 1..Len(videos) : VideoReject(v)
  \/ \E v \in 1..Len(videos) : MockVideoResolve(v)
  \/ \E v \in 1..Len(videos) : CleanupDone(v)

SpecPush == InitStarted /\ [][NextPush]_vars

(***************************************************************************)
(* One job on the poll path: creating the push channel failed, so the      *)
(* start response started the poller at once; the larger answer set.       *)
(***************************************************************************)
InitPolling ==
  /\ variant \in Variants
  /\ InitFrom(Started(TRUE))

NextPoll ==
  \/ \E i \in 1..Len(intervals) : IntervalFire(i)
  \/ \E t \in 1..Len(ticks) : \E r \in PollResponses : PollResolve(t, r)
  \/ \E t \in 1..Len(ticks) : PollReject(t)
  \/ \E v \in 1..Len(videos) : \E kind \in VideoResults : VideoResolve(v, kind)
  \/ \E v \in 1..Len(videos) : VideoReject(v)
  \/ \E v \in 1..Len(videos) : MockVideoResolve(v)
  \/ \E v \in 1..Len(videos) : CleanupDone(v)

SpecPoll == InitPolling /\ [][NextPoll]_vars

(***************************************************************************)
(* The start phase in both modes of the application: live mode, where      *)
(* startGeneration starts a job, and demo mode.                            *)
(***************************************************************************)
InitMode ==
  /\ variant \in Variants
  /\ \E b \in BOOLEAN : InitFrom([Fresh EXCEPT !.isLiveMode = b])

NextMode ==
  \/ StartGenerationCall
  \/ AutoStart
  \/ \E k \in 1..Len(starts) : StartResolve(k)
  \/ \E k \in 1..Len(starts) : StartReject(k)
  \/ \E k \in 1..Len(starts) : MockStartResolve(k)
  \/ \E s \in 1..Len(sources) : TransportError(s)
  \/ Unmount

SpecMode == InitMode /\ [][NextMode]_vars

(***************************************************************************)
(* The artifact request in depth: liveApiClient.getVideo as a function of  *)
(* what the server answers to the requests it makes.                       *)
(***************************************************************************)
\* what the server would answer: GET /job_status (status, video_path; or the
\* request fails), HEAD /videos/{file}, GET /get_video/{job_id} (ok or not,
\* or the request fails; content type; what a JSON body holds)
ArtifactResponses ==
  [status : {"complete", "processing", "error", "reject"},
   video_path : {"", "/v/c3_tiktok.mp4"},
   head : {"ok", "notok", "reject"},
   get : {"ok", "http500", "reject"},
   contentType : {"json", "video", "other", "none"},
   body : {"url", "error", "empty"}]

Throws == [kind |-> "throw", url |-> Null]
ReturnsBlob == [kind |-> "blob", url |-> Null]
ReturnsUrl(u) == [kind |-> "url", url |-> u]

DirectVideoUrl(fileName) == "https://server/videos/" \o fileName

\* api/liveApi.ts: fetch, handleApiResponse, blob()
clientGetVideoLocal(r) ==
  IF r.get # "ok" THEN Throws ELSE ReturnsBlob

\* the deployed liveApi.ts: status check, direct URL, then the get_video endpoint
clientGetVideoDeployed(r) ==
  IF r.status = "reject" THEN Throws
  ELSE IF r.status # "complete" THEN Throws
  ELSE IF r.video_path # "" /\ LastSegment(r.video_path) # "" /\ r.head = "ok"
  THEN ReturnsUrl(DirectVideoUrl(LastSegment(r.video_path)))
  ELSE IF r.get # "ok" THEN Throws
  ELSE IF r.contentType = "json"
  THEN (IF r.body = "url" THEN ReturnsUrl(ServerVideoUrl) ELSE Throws)
  ELSE ReturnsBlob

clientGetVideo(vr, r) ==
  IF vr = "local" THEN clientGetVideoLocal(r) ELSE clientGetVideoDeployed(r)

\* getVideo after the await of liveApiClient.getVideo(id), the server answering r
videoSettled(S, v, vr, r) ==
  LET out == clientGetVideo(vr, r)
      S0 == [S EXCEPT !.videos[v] = [job |-> @.job, pc |-> @.pc, videoData |-> @.videoData,
                                     resp |-> r]]
  IN IF out.kind = "throw" THEN rejectVideo(S0, v)
     ELSE publishVideo(S0, v, IF out.kind = "blob" THEN BlobUrl(S.videos[v].job) ELSE out.url)

ArtifactSettle(v, r) ==
  /\ videos[v].pc = "awaitVideo"
  /\ Apply(videoSettled(Cur, v, variant, r))
  /\ UNCHANGED <<variant, isLiveMode, mounted, tornDown>>

\* the started job has just received the frame that makes the adapter call onComplete
InitCompleting ==
  /\ variant \in Variants
  /\ \E f \in Frames :
       /\ HasCb(OnMessage(variant, f), "complete")
       /\ InitFrom(Dispatch([Started(FALSE) EXCEPT !.sources[1].nRecv = 1, !.sources[1].last = f],
                            1, OnMessage(variant, f)))

NextArtifact ==
  \/ \E v \in 1..Len(videos) : \E r \in ArtifactResponses : ArtifactSettle(v, r)
  \/ \E v \in 1..Len(videos) : MockVideoResolve(v)
  \/ \E v \in 1..Len(videos) : CleanupDone(v)

SpecArtifact == InitCompleting /\ [][NextArtifact]_vars

(***************************************************************************)
(* Vocabulary of the properties.                                           *)
(***************************************************************************)
IsPrefix(a, b) == Len(a) <= Len(b) /\ SubSeq(b, 1, Len(a)) = a

\* this step delivers a frame on source s / finishes the status request of tick t
FrameStep(s) == sources'[s].nRecv = sources[s].nRecv + 1
PollStep(t)  == ticks[t].pc = "awaitStatus" /\ ticks'[t].pc = "done"
StartStep    == Len(starts') = Len(starts) + 1
VideoStep(v) == videos[v].pc \in {"awaitVideo", "awaitMockVideo"} /\ videos'[v].pc # videos[v].pc

TickJob(t) == intervals[ticks[t].iv].job

IsErrorFrame(f) == ~f.raw /\ StartsWith(f.log, kError)
IsDoneFrame(f) == ~f.raw /\ StartsWith(f.log, kDone)
IsStructuredComplete(f) == ~f.raw /\ f.status = "complete" /\ f.video_path # ""
IsControlFrame(f) == IsErrorFrame(f) \/ IsDoneFrame(f) \/ IsStructuredComplete(f)

\* the callbacks the adapter of source s makes in this step
StepCallbacks(s) ==
  IF FrameStep(s) THEN OnMessage(variant, sources'[s].last)
  ELSE IF ~sources[s].failed /\ sources'[s].failed THEN OnError(variant)
  ELSE <<>>

CountCb(cbs, kind) == Cardinality({i \in 1..Len(cbs) : cbs[i].cb = kind})

\* onError calls made so far for the channel of job j: each one starts a poller for j
ErrorCalls(j) == Cardinality({i \in 1..Len(intervals) : intervals[i].job = j})

\* the server has reported a terminal status: on the push channel (a DONE:
\* line or a payload with status 'complete') or in a poll answer
TerminalReported ==
  \/ \E s \in 1..Len(sources) :
       /\ sources[s].nRecv > 0 /\ ~sources[s].last.raw
       /\ (sources[s].last.status = "complete" \/ StartsWith(sources[s].last.log, kDone))
  \/ \E t \in 1..Len(ticks) :
       ticks[t].pc = "done" /\ ticks[t].status.status \in {"complete", "error"}

\* nothing is pending: no channel open, no request in flight, no timer registered
NothingPending ==
  /\ \A s \in 1..Len(sources) : ~sources[s].open
  /\ \A k \in 1..Len(starts) : starts[k].pc = "done"
  /\ \A t \in 1..Len(ticks) : ticks[t].pc # "awaitStatus"
  /\ \A v \in 1..Len(videos) : videos[v].pc = "done"
  /\ \A i \in 1..Len(intervals) : ~intervals[i].active

OpenSources == {s \in 1..Len(sources) : sources[s].open}
ActiveIntervals == {i \in 1..Len(intervals) : intervals[i].active}

(***************************************************************************)
(* Properties.                                                             *)
(***************************************************************************)

\* C1: once a completion signal has been processed for a job, a later push
\* frame or poll answer of that job changes neither the processing status
\* nor the log list.
C1_TerminalIdempotence ==
  [][\A j \in {videos[v].job : v \in 1..Len(videos)} :
       ( \/ \E s \in 1..Len(sources) : sources[s].job = j /\ FrameStep(s)
         \/ \E t \in 1..Len(ticks) : TickJob(t) = j /\ PollStep(t) )
       => (processingStatus' = processingStatus /\ logs' = logs)]_vars

\* C2: every push frame appends exactly the lines the adapter forwards for
\* it, in call order, at the end of the log list; no other step removes or
\* reorders a line (only a new start empties the list).
C2_PushLogOrder ==
  [][mounted =>
       /\ \A s \in 1..Len(sources) :
            FrameStep(s) => logs' = logs \o MessagesOf(OnMessage(variant, sources'[s].last))
       /\ IsPrefix(logs, logs') \/ (StartStep /\ logs' = <<>>)]_vars

C2_Witness ==
  /\ mounted
  /\ \E s \in 1..Len(sources) : sources[s].nRecv >= 2
  /\ Len(logs) >= 2
  /\ logs[1] # logs[2]

\* C3: a control frame (ERROR: line, DONE: line, structured completion) is
\* consumed as its signal and leaves the log list unchanged; for an ERROR:
\* line onError gets the text after the prefix and onMessage is not called.
C3_ControlFramesNotLogged ==
  [][mounted =>
       \A s \in 1..Len(sources) :
         (FrameStep(s) /\ IsControlFrame(sources'[s].last)) =>
           LET f == sources'[s].last
               cbs == OnMessage(variant, f)
           IN /\ logs' = logs
              /\ IsErrorFrame(f) =>
                   (HasCb(cbs, "error") /\ ~HasCb(cbs, "message")
                    /\ \A i \in 1..Len(cbs) :
                         cbs[i].cb = "error" => cbs[i].arg = SubstringFrom(f.log, 6))
              /\ (IsDoneFrame(f) \/ IsStructuredComplete(f)) => HasCb(cbs, "complete")]_vars

\* C4: failover happens once per job: the status poller is started at most
\* once for a job id, whatever events of that job follow the first failure.
C4_FailoverOnce ==
  \A i, k \in 1..Len(intervals) : intervals[i].job = intervals[k].job => i = k

\* C5: a poll answer with a logs array appends exactly the entries that the
\* current log list does not hold yet, in array order.
C5_DedupeLaw ==
  [][mounted =>
       \A t \in 1..Len(ticks) :
         (PollStep(t) /\ ticks'[t].status.hasLogs) =>
           logs' = logs \o SelectNotIn(ticks'[t].status.logs, logs)]_vars

\* C6: cleanup with nothing to tear down changes nothing; after cleanup has
\* torn down a job's transport or poller, no callback of that job runs: no
\* status update, no log line, no artifact fetch, no published URL.
C6_CleanupStopsCallbacks ==
  [][/\ (mounted /\ ~mounted' /\ webSocketRef = 0 /\ statusPollingRef = 0)
          => progVars' = progVars
     /\ \A j \in tornDown :
          ( \/ \E s \in 1..Len(sources) : sources[s].job = j /\ FrameStep(s)
            \/ \E t \in 1..Len(ticks) : TickJob(t) = j /\ PollStep(t)
            \/ \E v \in 1..Len(videos) : videos[v].job = j /\ VideoStep(v) )
          => /\ processingStatus' = processingStatus
             /\ logs' = logs
             /\ Len(videos') = Len(videos)
             /\ storeVideoUrl' = storeVideoUrl /\ videoUrl' = videoUrl]_vars

\* C7: at most one push transport is open and at most one polling interval
\* is registered, and both belong to the most recently started job.
C7_SingleActiveJob ==
  /\ Cardinality(OpenSources) <= 1
  /\ Cardinality(ActiveIntervals) <= 1
  /\ \A s \in OpenSources : sources[s].job = starts[Len(starts)].job
  /\ \A i \in ActiveIntervals : intervals[i].job = starts[Len(starts)].job

C9_ArtifactFallback ==
  [][\A v \in 1..Len(videos) :
       /\ (videos[v].pc = "awaitVideo" /\ videos'[v].pc = "awaitMockVideo") =>
            (error' = error /\ processingStatus' = processingStatus
             /\ currentPage' = currentPage)
       /\ (videos[v].pc = "awaitMockVideo" /\ videos'[v].pc # "awaitMockVideo") =>
            /\ videos'[v].pc = "awaitCleanup"
            /\ storeVideoUrl' = MockVideoUrl
            /\ mounted => (videoUrl' = MockVideoUrl /\ error' = error)
            /\ processingStatus'.step = "complete" /\ processingStatus'.progress = 100
            /\ currentPage' = "completion"]_vars

C9_Witness ==
  \E v \in 1..Len(videos) :
    /\ videos[v].pc \in {"awaitCleanup", "done"}
    /\ videos[v].videoData = MockVideoUrl
    /\ storeVideoUrl = MockVideoUrl /\ currentPage = "completion"
    /\ processingStatus.step = "complete" /\ processingStatus.progress = 100

\* C10: for every getVideo call the job id is one returned by a start; the
\* release is issued only in the step that, after the fetch, publishes the
\* URL and sets the status to {complete, 100}; no release before the URL.
C10_RetrievalOrder ==
  /\ [](\A v \in 1..Len(videos) :
          /\ \E k \in 1..Len(starts) : starts[k].job = videos[v].job
          /\ videos[v].pc \in {"awaitVideo", "awaitMockVideo"} => videos[v].videoData = Null
          /\ videos[v].pc \in {"awaitCleanup", "done"} => videos[v].videoData # Null)
  /\ [][\A v \in 1..Len(videos') :
          (videos'[v].pc = "awaitCleanup" /\ (v > Len(videos) \/ videos[v].pc # "awaitCleanup")) =>
            /\ v <= Len(videos) /\ videos[v].pc \in {"awaitVideo", "awaitMockVideo"}
            /\ videos'[v].videoData # Null
            /\ storeVideoUrl' = videos'[v].videoData
            /\ processingStatus' = [step |-> "complete", progress |-> 100,
                                    message |-> "Video generation complete!"]]_vars

C10_Witness ==
  \E v \in 1..Len(videos) :
    /\ videos[v].pc = "done"
    /\ videos[v].videoData = BlobUrl(videos[v].job)
    /\ jobId # videos[v].job

\* C11: whatever the outcome of the release request, the step that ends it
\* records no error and leaves the processing status, the published URL and
\* the page as they were; they were {complete, 100}, the artifact URL and
\* 'completion' when the release was issued.
C11_ReleaseBestEffort ==
  [][\A v \in 1..Len(videos) :
       /\ (videos[v].pc # "awaitCleanup" /\ videos'[v].pc = "awaitCleanup") =>
            /\ processingStatus'.step = "complete" /\ processingStatus'.progress = 100
            /\ storeVideoUrl' = videos'[v].videoData
            /\ currentPage' = "completion"
       /\ (videos[v].pc = "awaitCleanup" /\ videos'[v].pc # "awaitCleanup") =>
            /\ videos'[v].pc = "done"
            /\ error' = error
            /\ processingStatus' = processingStatus
            /\ storeVideoUrl' = storeVideoUrl /\ videoUrl' = videoUrl
            /\ currentPage' = currentPage]_vars

C11_Witness ==
  \E v \in 1..Len(videos) :
    /\ videos[v].pc = "done"
    /\ videos[v].videoData = ServerVideoUrl
    /\ storeVideoUrl = ServerVideoUrl /\ currentPage = "completion"
    /\ processingStatus = [step |-> "complete", progress |-> 100,
                           message |-> "Video generation complete!"]
    /\ error = Null

\* C12: over the life of one push channel onError is called at most once,
\* whatever transport errors, ERROR: frames and creation failures occur, and
\* a channel that was closed is never opened again.
C12_OnErrorAtMostOnce ==
  [][\A s \in 1..Len(sources) :
       /\ CountCb(StepCallbacks(s), "error") >= 1 =>
            (CountCb(StepCallbacks(s), "error") = 1 /\ ErrorCalls(sources[s].job) = 0)
       /\ ~sources[s].open => ~sources'[s].open]_vars

\* C13: a frame with status 'complete' makes exactly one onComplete call and
\* the adapter closes the channel in the same step, also when the frame
\* carries a message or a log field.
C13_StructuredCompletion ==
  [][\A s \in 1..Len(sources) :
       (FrameStep(s) /\ ~sources'[s].last.raw /\ sources'[s].last.status = "complete") =>
         /\ CountCb(StepCallbacks(s), "complete") = 1
         /\ CountCb(StepCallbacks(s), "close") = 1
         /\ ~sources'[s].open]_vars

\* C14: every frame makes at least one callback, and a frame that fails
\* JSON parsing makes exactly one: onMessage with the raw text.
C14_NoFrameDropped ==
  [][\A s \in 1..Len(sources) :
       FrameStep(s) =>
         /\ Len(StepCallbacks(s)) >= 1
         /\ sources'[s].last.raw =>
              StepCallbacks(s) = <<CbMessage(sources'[s].last.text)>>]_vars

\* C15: a run in which the server has reported a terminal status never ends
\* without a result: when no channel is open, no request is in flight and no
\* timer is registered, an artifact URL is published and the page is
\* 'completion'.
C15_ViewableResult ==
  (starts # <<>> /\ TerminalReported /\ NothingPending) =>
    (currentPage = "completion" /\ storeVideoUrl # Null)

\* the phase the thresholds give: below 30 analyzing, 30 to below 60
\* generating, 60 to below 100 rendering, 100 complete
ThresholdPhase(p) ==
  CASE p < 30 -> "analyzing"
    [] p >= 30 /\ p < 60 -> "generating"
    [] p >= 60 /\ p < 100 -> "rendering"
    [] p >= 100 -> "complete"

\* C16 (as stated): every poll answer that reports a progress value sets the
\* processing status to that progress with the phase the thresholds give
\* (answers with status 'complete' set aside: there the retrieval that
\* starts in the same step sets the status once more).
C16_PhaseOnEveryProgress ==
  [][\A t \in 1..Len(ticks) :
       (PollStep(t) /\ ticks'[t].status.hasProgress /\ ticks'[t].status.status # "complete") =>
         /\ processingStatus'.progress = ticks'[t].status.progress
         /\ processingStatus'.step = ThresholdPhase(ticks'[t].status.progress)]_vars

\* C16 (amended): a poll answer that reports a progress value and a
\* non-empty message sets the status to {threshold phase, progress, message};
\* an answer without one of them leaves the status as it was; an answer
\* with status 'complete' ends the step with the retrieval status
\* {rendering, 95}, whatever it reported.
C16_PhaseFromProgressAndMessage ==
  [][\A t \in 1..Len(ticks) :
       PollStep(t) =>
         LET r == ticks'[t].status
         IN IF r.status = "complete"
            THEN processingStatus' = [step |-> "rendering", progress |-> 95,
                                      message |-> "Retrieving generated video..."]
            ELSE IF r.hasProgress /\ r.message # ""
            THEN processingStatus' = [step |-> ThresholdPhase(r.progress),
                                      progress |-> r.progress, message |-> r.message]
            ELSE processingStatus' = processingStatus]_vars

C16_Witness ==
  \E t \in 1..Len(ticks) :
    /\ ticks[t].pc = "done"
    /\ ticks[t].status.hasProgress /\ ticks[t].status.progress = 30
    /\ processingStatus = [step |-> "generating", progress |-> 30, message |-> "hello"]

\* C17: a poll answer with status 'complete' stops the job's interval and
\* starts the artifact retrieval; one with status 'error' stops it and
\* records the server's message; any other answer leaves the intervals
\* alone; once a job got a terminal answer no interval of it is active, so
\* no further status request is issued for it.
C17_PollerStopsOnTerminal ==
  [][\A t \in 1..Len(ticks) :
       LET j == TickJob(t)
           stopped == \A i \in 1..Len(intervals') : intervals'[i].job = j => ~intervals'[i].active
       IN /\ PollStep(t) =>
               LET r == ticks'[t].status
               IN /\ r.status = "complete" =>
                       /\ stopped
                       /\ Len(videos') = Len(videos) + 1
                       /\ videos'[Len(videos')].job = j
                  /\ r.status = "error" =>
                       /\ stopped
                       /\ mounted => error' = r.message
                  /\ r.status \notin {"complete", "error"} => intervals' = intervals
          /\ (ticks[t].pc = "done" /\ ticks[t].status.status \in {"complete", "error"}) =>
               stopped]_vars

\* C18: a poll tick whose status request fails changes nothing but the
\* tick itself: status, logs, error, page, URL, retrievals and intervals
\* stay as they are, so an interval that was active keeps firing.
C18_PollFailureSwallowed ==
  [][\A t \in 1..Len(ticks) :
       (ticks[t].pc = "awaitStatus" /\ ticks'[t].pc = "failed") =>
         /\ processingStatus' = processingStatus
         /\ logs' = logs /\ error' = error /\ jobId' = jobId
         /\ currentPage' = currentPage
         /\ storeVideoUrl' = storeVideoUrl /\ videoUrl' = videoUrl
         /\ videos' = videos
         /\ intervals' = intervals /\ statusPollingRef' = statusPollingRef
         /\ sources' = sources]_vars

C18_Witness ==
  \E t, u \in 1..Len(ticks) :
    /\ t < u
    /\ ticks[t].pc = "failed"
    /\ ticks[u].iv = ticks[t].iv /\ ticks[u].pc = "done"
    /\ ticks[u].status.status = "processing"
    /\ intervals[ticks[t].iv].active

\* the keyword families of the classification
InAnalyzingFamily(l) ==
  Includes(l, kAnalyzing) \/ Includes(l, kExtracting)
    \/ Includes(l, kTransforming) \/ Includes(l, kStartingToProcess)
InGeneratingFamily(l) ==
  Includes(l, kRendering) \/ Includes(l, kGenerating) \/ Includes(l, kCreating)
InEncodingFamily(l) ==
  Includes(l, kApplying) \/ Includes(l, kEncoding) \/ Includes(l, kCombining) \/ Includes(l, kAdding)
InCompletionFamily(l) ==
  Includes(l, kcomplete) \/ Includes(l, kComplete)
InNoFamily(l) ==
  ~(InAnalyzingFamily(l) \/ InGeneratingFamily(l) \/ InEncodingFamily(l) \/ InCompletionFamily(l))

\* this step delivers on source s a frame that is forwarded as the log line l and nothing else
LineStep(s, l) == FrameStep(s) /\ StepCallbacks(s) = <<CbMessage(l)>>

C20_UnmatchedLine ==
  [][\A s \in 1..Len(sources) : \A l \in Strings :
       (LineStep(s, l) /\ InNoFamily(l)) =>
         /\ logs' = Append(logs, l)
         /\ processingStatus' = processingStatus
         /\ jobId' = jobId]_vars

C20_Witness ==
  /\ \E s \in 1..Len(sources) : sources[s].nRecv = 2 /\ sources[s].last.raw
  /\ logs = <<"Analyzing", "{bad">>
  /\ processingStatus = [step |-> "analyzing", progress |-> 30, message |-> "Analyzing"]
  /\ jobId = ServerJobId(1)

\* C21: a log line that embeds a job identifier sets the stored job id only
\* when none was known: a job id recorded from start is not overwritten by a
\* push frame.
C21_JobIdNotOverwritten ==
  [][\A s \in 1..Len(sources) :
       (FrameStep(s) /\ jobId # Null) => jobId' = jobId]_vars

ArtifactStep(v) == videos[v].pc = "awaitVideo" /\ videos'[v].pc # "awaitVideo"

\* C23: the artifact request yields a result only when the job's status is
\* 'complete' and fails otherwise; on success a JSON response with a url
\* gives that URL string, a JSON response without a url fails, and any other
\* content type gives the binary payload.
C23_ArtifactByContentType ==
  [][\A v \in 1..Len(videos) :
       ArtifactStep(v) =>
         LET r == videos'[v].resp
             failed == videos'[v].pc = "awaitMockVideo"
             data == videos'[v].videoData
         IN /\ r.status # "complete" => failed
            /\ (r.status = "complete" /\ r.get = "ok") =>
                 /\ (r.contentType = "json" /\ r.body = "url") =>
                      (~failed /\ data = ServerVideoUrl)
                 /\ (r.contentType = "json" /\ r.body # "url") => failed
                 /\ r.contentType # "json" =>
                      (~failed /\ data = BlobUrl(videos[v].job))]_vars

\* C24: in every reachable state the published progress percentage is
\* between 0 and 100 inclusive, whatever the status endpoint reports.
C24_PercentInRange ==
  processingStatus.progress \in 0..100

\* C25: the artifact fetch and the release are issued at most once per job:
\* no two runs of getVideo are for the same job id, whatever the
\* interleaving of completion frames and poll answers.
C25_ArtifactOncePerJob ==
  \A v, w \in 1..Len(videos) : videos[v].job = videos[w].job => v = w

\* C26: the push channel and the status poller are never both active for
\* the same job: while a polling interval of a job is registered, no push
\* channel of that job is open.
C26_ChannelXorPoller ==
  \A i \in ActiveIntervals : \A s \in OpenSources : sources[s].job # intervals[i].job

\* C27: whenever a polling interval is registered, the connection flag
\* isWebSocketConnected is false.
C27_FlagFalseWhilePolling ==
  ActiveIntervals # {} => ~isWebSocketConnected

\* the job ids the start calls have returned so far
StartedJobs == {starts[k].job : k \in {n \in 1..Len(starts) : starts[n].pc = "done"}}

\* C28: every remote call made for a job (opening the push channel, each
\* status poll, the artifact fetch and the release) uses a job id returned
\* by a start call, also after a log line has replaced the stored job id.
C28_CallsUseStartJobId ==
  /\ \A s \in 1..Len(sources) : sources[s].job \in StartedJobs
  /\ \A i \in 1..Len(intervals) : intervals[i].job \in StartedJobs
  /\ \A t \in 1..Len(ticks) : TickJob(t) \in StartedJobs
  /\ \A v \in 1..Len(videos) : videos[v].job \in StartedJobs

\* a log line has replaced the stored job id, and the artifact of the job
\* was fetched and released under the id its start call returned
C28_Witness ==
  /\ jobId # Null /\ jobId \notin StartedJobs
  /\ \E v \in 1..Len(videos) : videos[v].pc = "done" /\ videos[v].job \in StartedJobs

\* C29: whenever the page is 'completion', the artifact URL the hook
\* publishes is non-null, in the store and (while the component is mounted)
\* in the hook's state.
C29_CompletionHasUrl ==
  currentPage = "completion" =>
    (storeVideoUrl # Null /\ (mounted => videoUrl # Null))

\* C30: startGeneration called while live mode is off is a no-op: it
\* changes no state, awaits no remote operation, and opens no transport,
\* simulator or poller.
C30_DemoModeNoOp ==
  [][(~isLiveMode /\ StartStep) =>
       /\ UNCHANGED <<jobId, logs, error, isGenerating, videoUrl, isWebSocketConnected,
                      processingStatus, currentPage, storeVideoUrl,
                      webSocketRef, statusPollingRef, sources, intervals, ticks, videos>>
       /\ starts'[Len(starts')].pc = "done" /\ starts'[Len(starts')].job = Null
       /\ \A k \in 1..Len(starts) : starts'[k] = starts[k]]_vars

\* startGeneration was called twice in demo mode
C30_Witness ==
  /\ ~isLiveMode /\ Len(starts) = 2
  /\ jobId = Null /\ ~isGenerating /\ storeVideoUrl = MockVideoUrl
  /\ sources = <<>> /\ intervals = <<>>

====
